---------------------------- MODULE Spec2Model ----------------------------
(***************************************************************************)
(* The schema gRPC service of service_grpc_schema/src/lib.rs:              *)
(* SchemaService::get_schema and schema_to_proto, together with the        *)
(* catalog they read.  The catalog (iox_catalog) is a collaborator whose   *)
(* code is outside this crate; it is modelled by its lookup contract.      *)
(***************************************************************************)
EXTENDS Integers, Sequences, FiniteSets, TLC

\* ------------------------------------------------------------- bounds
\* Writes the catalog takes: rows created and rows marked deleted.
MaxWrites == 6
\* Request slots: in-flight get_schema calls that may overlap.
NumRequests == 2
\* Largest id drawn for the inputs of the conversion.
MaxId == 2

\* ------------------------------------------------------------- values
NamespaceNames == {"ns1", "ns2"}
TableNames == {"t1", "t2"}
ColumnNames == {"c1", "c2"}
\* Column types the catalog writers and the conversion inputs draw from.
UsedColumnTypes == {"Tag", "I64"}

\* Option<T>
None == <<>>
Some(x) == <<x>>
IsSome(o) == o # <<>>
Unwrap(o) == o[1]

\* Result<T, E>
Ok(x) == [ok |-> TRUE, val |-> x]
Err(e) == [ok |-> FALSE, err |-> e]

\* GetSchemaRequest { namespace: String, table: Option<String> }
RequestNamespaces == NamespaceNames \cup {""}
RequestTables == {None} \cup {Some(t) : t \in TableNames \cup {""}}

\* The requests drawn while calls overlap.
ConcNamespaces == {"ns1", ""}
ConcTables == {None, Some("t1"), Some("t2")}

Requests == 1..NumRequests

VARIABLES
    namespaces,   \* catalog: rows [id, name, deleted]
    tables,       \* catalog: rows [id, namespace_id, name, deleted]
    columns,      \* catalog: rows [id, table_id, name, column_type]
    exclusive,    \* whether catalog.repositories() hands out a lock guard
    service,      \* SchemaService { catalog }
    req,          \* per call of get_schema: its position and locals
    convIn,       \* input of schema_to_proto, when checked on its own
    convOut       \* its output (None before the conversion)

vars == <<namespaces, tables, columns, exclusive, service, req, convIn, convOut>>

\* ------------------------------------------------------------ catalog
\* data_types: typed ids, unwrapped by .get()
NamespaceId(n) == <<"NamespaceId", n>>
TableId(n) == <<"TableId", n>>
ColumnId(n) == <<"ColumnId", n>>
Get(id) == id[2]

\* data_types::ColumnType as i32
ColumnTypeCode(t) ==
    CASE t = "I64" -> 1
      [] t = "U64" -> 2
      [] t = "F64" -> 3
      [] t = "Bool" -> 4
      [] t = "String" -> 5
      [] t = "Time" -> 6
      [] t = "Tag" -> 7

\* SoftDeletedRows::ExcludeDeleted keeps the rows not marked deleted.
Visible(row, deleted) ==
    CASE deleted = "ExcludeDeleted" -> ~row.deleted
      [] deleted = "AllRows" -> TRUE
      [] deleted = "OnlyDeleted" -> row.deleted

\* The catalog's errors and their Display text.
NamespaceNotFoundByName(name) == [kind |-> "NamespaceNotFoundByName", name |-> name]
TableNotFoundByName(name) == [kind |-> "TableNotFoundByName", name |-> name]

to_string(e) ==
    CASE e.kind = "NamespaceNotFoundByName" -> <<"namespace", e.name, "not found">>
      [] e.kind = "TableNotFoundByName" -> <<"table", e.name, "not found">>

\* TableSchema of one table row: its id and its columns by name.
TableSchemaOf(t, cols) ==
    LET mine == {c \in cols : c.table_id = t.id}
    IN  [id |-> TableId(t.id),
         columns |-> [n \in {c.name : c \in mine} |->
                        LET c == CHOOSE c \in mine : c.name = n
                        IN  [id |-> ColumnId(c.id), column_type |-> c.column_type]]]

\* NamespaceSchema of a namespace row over the given table rows.
NamespaceSchemaOf(ns, tbls, cols) ==
    [id |-> NamespaceId(ns.id),
     tables |-> [n \in {t.name : t \in tbls} |->
                   TableSchemaOf(CHOOSE t \in tbls : t.name = n, cols)]]

\* iox_catalog::interface::get_schema_by_name
get_schema_by_name(name, cat, deleted) ==
    LET found == {n \in cat.namespaces : n.name = name /\ Visible(n, deleted)}
    IN  IF found = {} THEN Err(NamespaceNotFoundByName(name))
        ELSE LET ns == CHOOSE n \in found : TRUE
                 tbls == {t \in cat.tables : t.namespace_id = ns.id /\ Visible(t, deleted)}
             IN  Ok(NamespaceSchemaOf(ns, tbls, cat.columns))

\* iox_catalog::interface::get_schema_by_namespace_and_table
get_schema_by_namespace_and_table(name, table_name, cat, deleted) ==
    LET found == {n \in cat.namespaces : n.name = name /\ Visible(n, deleted)}
    IN  IF found = {} THEN Err(NamespaceNotFoundByName(name))
        ELSE LET ns == CHOOSE n \in found : TRUE
                 tbls == {t \in cat.tables : /\ t.namespace_id = ns.id
                                             /\ t.name = table_name
                                             /\ Visible(t, deleted)}
             IN  IF tbls = {} THEN Err(TableNotFoundByName(table_name))
                 ELSE Ok(NamespaceSchemaOf(ns, tbls, cat.columns))

\* The catalog as the repositories handle shows it.
Catalog == [namespaces |-> namespaces, tables |-> tables, columns |-> columns]

\* Some call holds the repositories handle.
HandleHeld == \E r \in Requests : req[r].repos

\* Writers run between calls.  A call reads the catalog in its lookup alone,
\* so a write during a call acts as one before it or one after it.
WriterMayRun == \A r \in Requests : req[r].pc = "idle"

\* Writes the catalog has taken: its rows and its deletion marks.
Writes ==
    Cardinality(namespaces) + Cardinality(tables) + Cardinality(columns)
        + Cardinality({n \in namespaces : n.deleted})
        + Cardinality({t \in tables : t.deleted})

\* test_helpers::arbitrary_namespace
CreateNamespace(name) ==
    /\ WriterMayRun
    /\ Writes < MaxWrites
    /\ \A n \in namespaces : n.name # name
    /\ namespaces' = namespaces \cup
          {[id |-> Cardinality(namespaces) + 1, name |-> name, deleted |-> FALSE]}
    /\ UNCHANGED <<tables, columns, exclusive, service, req, convIn, convOut>>

\* test_helpers::arbitrary_table
CreateTable(ns, name) ==
    /\ WriterMayRun
    /\ Writes < MaxWrites
    /\ \A t \in tables : ~(t.namespace_id = ns.id /\ t.name = name)
    /\ tables' = tables \cup
          {[id |-> Cardinality(tables) + 1, namespace_id |-> ns.id,
            name |-> name, deleted |-> FALSE]}
    /\ UNCHANGED <<namespaces, columns, exclusive, service, req, convIn, convOut>>

\* repos.columns().create_or_get(name, table_id, column_type)
CreateColumn(t, name, type) ==
    /\ WriterMayRun
    /\ Writes < MaxWrites
    /\ \A c \in columns : ~(c.table_id = t.id /\ c.name = name)
    /\ columns' = columns \cup
          {[id |-> Cardinality(columns) + 1, table_id |-> t.id,
            name |-> name, column_type |-> type]}
    /\ UNCHANGED <<namespaces, tables, exclusive, service, req, convIn, convOut>>

\* Soft deletion marks a row and keeps it.
SoftDeleteNamespace(ns) ==
    /\ WriterMayRun
    /\ Writes < MaxWrites
    /\ ~ns.deleted
    /\ namespaces' = (namespaces \ {ns}) \cup {[ns EXCEPT !.deleted = TRUE]}
    /\ UNCHANGED <<tables, columns, exclusive, service, req, convIn, convOut>>

SoftDeleteTable(t) ==
    /\ WriterMayRun
    /\ Writes < MaxWrites
    /\ ~t.deleted
    /\ tables' = (tables \ {t}) \cup {[t EXCEPT !.deleted = TRUE]}
    /\ UNCHANGED <<namespaces, columns, exclusive, service, req, convIn, convOut>>

\* ------------------------------------------------------------ service
\* SchemaService::new
NewService == [catalog |-> "catalog"]

\* A call slot before any request arrived.
IdleCall ==
    [pc |-> "idle", namespace |-> "", table |-> None, repos |-> FALSE,
     calls |-> <<>>, schema |-> None, warns |-> <<>>, response |-> None]

\* A request arrives at a free slot.
Begin(r, namespace, table) ==
    /\ req[r].pc = "idle"
    /\ req' = [req EXCEPT ![r] = [IdleCall EXCEPT !.pc = "start",
                                                  !.namespace = namespace,
                                                  !.table = table]]
    /\ UNCHANGED <<namespaces, tables, columns, exclusive, service, convIn, convOut>>

\* let mut repos = self.catalog.repositories().await;
Acquire(r) ==
    /\ req[r].pc = "start"
    /\ exclusive => ~HandleHeld
    /\ req' = [req EXCEPT ![r].pc = "acquired", ![r].repos = TRUE]
    /\ UNCHANGED <<namespaces, tables, columns, exclusive, service, convIn, convOut>>

\* Mutant: the request is read from a field shared by the calls in flight.
RequestShared(r) ==
    LET q == CHOOSE q \in Requests : req[q].pc # "idle"
    IN  [namespace |-> req[q].namespace, table |-> req[q].table]

\* let req = request.into_inner();
Request(r) == [namespace |-> req[r].namespace, table |-> req[r].table]

\* Mutant: the lookups are asked for all rows, deleted ones included.
DispatchAllRows(namespace, table) ==
    IF IsSome(table)
    THEN [op |-> "get_schema_by_namespace_and_table", namespace |-> namespace,
          table |-> table, deleted |-> "AllRows"]
    ELSE [op |-> "get_schema_by_name", namespace |-> namespace,
          table |-> None, deleted |-> "AllRows"]

\* Mutant: the table of the request is ignored.
DispatchByNameOnly(namespace, table) ==
    [op |-> "get_schema_by_name", namespace |-> namespace,
     table |-> None, deleted |-> "ExcludeDeleted"]

\* match req.table { Some(table_name) => ..., None => ... }
Dispatch(namespace, table) ==
    IF IsSome(table)
    THEN [op |-> "get_schema_by_namespace_and_table", namespace |-> namespace,
          table |-> table, deleted |-> "ExcludeDeleted"]
    ELSE [op |-> "get_schema_by_name", namespace |-> namespace,
          table |-> None, deleted |-> "ExcludeDeleted"]

\* The catalog's answer to one lookup call.
Run(call, cat) ==
    IF call.op = "get_schema_by_namespace_and_table"
    THEN get_schema_by_namespace_and_table(call.namespace, Unwrap(call.table), cat, call.deleted)
    ELSE get_schema_by_name(call.namespace, cat, call.deleted)

\* Mutant: a by-table lookup creates the table it does not find.
LookupCreating(r) ==
    /\ req[r].pc = "acquired"
    /\ LET call == Dispatch(Request(r).namespace, Request(r).table)
           res == Run(call, Catalog)
           ns == {n \in namespaces : n.name = call.namespace /\ ~n.deleted}
       IN  /\ req' = [req EXCEPT ![r].pc = "looked",
                                 ![r].calls = Append(@, call),
                                 ![r].schema = Some(res)]
           /\ tables' =
                 IF ~res.ok /\ res.err.kind = "TableNotFoundByName"
                 THEN tables \cup
                        {[id |-> Cardinality(tables) + 1, namespace_id |-> n.id,
                          name |-> Unwrap(call.table), deleted |-> FALSE] : n \in ns}
                 ELSE tables
    /\ UNCHANGED <<namespaces, columns, exclusive, service, convIn, convOut>>

\* Mutant: a failed by-table lookup is followed by the by-namespace lookup.
LookupWithFallback(r) ==
    /\ req[r].pc = "acquired"
    /\ LET call == Dispatch(Request(r).namespace, Request(r).table)
           res == Run(call, Catalog)
           other == [op |-> "get_schema_by_name", namespace |-> call.namespace,
                     table |-> None, deleted |-> "ExcludeDeleted"]
       IN  IF ~res.ok /\ IsSome(call.table)
           THEN req' = [req EXCEPT ![r].pc = "looked",
                                   ![r].calls = Append(Append(@, call), other),
                                   ![r].schema = Some(Run(other, Catalog))]
           ELSE req' = [req EXCEPT ![r].pc = "looked",
                                   ![r].calls = Append(@, call),
                                   ![r].schema = Some(res)]
    /\ UNCHANGED <<namespaces, tables, columns, exclusive, service, convIn, convOut>>

\* The lookup the call makes through its repositories handle.
Lookup(r) ==
    /\ req[r].pc = "acquired"
    /\ LET call == Dispatch(Request(r).namespace, Request(r).table)
       IN  req' = [req EXCEPT ![r].pc = "looked",
                              ![r].calls = Append(@, call),
                              ![r].schema = Some(Run(call, Catalog))]
    /\ UNCHANGED <<namespaces, tables, columns, exclusive, service, convIn, convOut>>

\* Mutant: a column's id is taken from its table.
schema_to_proto_table_id(schema) ==
    [id |-> Get(schema.id),
     tables |-> [name \in DOMAIN schema.tables |->
        LET t == schema.tables[name]
        IN  [id |-> Get(t.id),
             columns |-> [cname \in DOMAIN t.columns |->
                LET c == t.columns[cname]
                IN  [id |-> Get(t.id),
                     column_type |-> ColumnTypeCode(c.column_type)]]]]]

\* fn schema_to_proto(schema: &data_types::NamespaceSchema) -> NamespaceSchema
schema_to_proto(schema) ==
    [id |-> Get(schema.id),
     tables |-> [name \in DOMAIN schema.tables |->
        LET t == schema.tables[name]
        IN  [id |-> Get(t.id),
             columns |-> [cname \in DOMAIN t.columns |->
                LET c == t.columns[cname]
                IN  [id |-> Get(c.id),
                     column_type |-> ColumnTypeCode(c.column_type)]]]]]

\* Mutant: the status carries the log line instead of the error's text.
StatusNotFoundLogText(e) ==
    [code |-> "NotFound", message |-> <<"failed to retrieve namespace schema">>]

\* Mutant: the failure is reported as an internal error.
StatusInternal(e) == [code |-> "Internal", message |-> to_string(e)]

\* Status::not_found(e.to_string())
StatusNotFound(e) == [code |-> "NotFound", message |-> to_string(e)]

\* warn!(error=%e, %req.namespace, "failed to retrieve namespace schema")
WarnEntry(e, namespace) ==
    [level |-> "WARN", error |-> to_string(e), namespace |-> namespace]

\* Mutant: the response leaves its schema field unset.
RespondAbsent(schema) == Ok([schema |-> None])

\* Ok(Response::new(GetSchemaResponse { schema: Some(schema_to_proto(&schema)) }))
Respond(schema) == Ok([schema |-> Some(schema_to_proto(schema))])

\* Mutant: the handle is kept until the response has been delivered.
FinishHoldingHandle(r) ==
    /\ req[r].pc = "looked"
    /\ LET res == Unwrap(req[r].schema)
       IN  IF res.ok
           THEN req' = [req EXCEPT ![r].pc = "done",
                                   ![r].response = Some(Respond(res.val))]
           ELSE req' = [req EXCEPT ![r].pc = "done",
                                   ![r].warns = Append(@, WarnEntry(res.err, req[r].namespace)),
                                   ![r].response = Some(Err(StatusNotFound(res.err)))]
    /\ UNCHANGED <<namespaces, tables, columns, exclusive, service, convIn, convOut>>

\* .map_err(...).map(Arc::new)?, then the response; the handle drops on return.
Finish(r) ==
    /\ req[r].pc = "looked"
    /\ LET res == Unwrap(req[r].schema)
       IN  IF res.ok
           THEN req' = [req EXCEPT ![r].pc = "done", ![r].repos = FALSE,
                                   ![r].response = Some(Respond(res.val))]
           ELSE req' = [req EXCEPT ![r].pc = "done", ![r].repos = FALSE,
                                   ![r].warns = Append(@, WarnEntry(res.err, req[r].namespace)),
                                   ![r].response = Some(Err(StatusNotFound(res.err)))]
    /\ UNCHANGED <<namespaces, tables, columns, exclusive, service, convIn, convOut>>

\* The response reached the client; the slot is free again.
Deliver(r) ==
    /\ req[r].pc = "done"
    /\ req' = [req EXCEPT ![r] = IdleCall]
    /\ UNCHANGED <<namespaces, tables, columns, exclusive, service, convIn, convOut>>

\* One step of the handler for call r.
HandlerStep(r) == Acquire(r) \/ Lookup(r) \/ Finish(r)

\* ------------------------------------------------------ specifications
\* The catalog the test builds: one namespace, two tables, a Tag column each.
TestCatalog ==
    [namespaces |-> {[id |-> 1, name |-> "ns1", deleted |-> FALSE]},
     tables |-> {[id |-> 1, namespace_id |-> 1, name |-> "t1", deleted |-> FALSE],
                 [id |-> 2, namespace_id |-> 1, name |-> "t2", deleted |-> FALSE]},
     columns |-> {[id |-> 1, table_id |-> 1, name |-> "c1", column_type |-> "Tag"],
                  [id |-> 2, table_id |-> 2, name |-> "c2", column_type |-> "Tag"]}]

\* The same catalog after its second table was soft-deleted.
TestCatalogDeleted ==
    [TestCatalog EXCEPT !.tables =
        {[t EXCEPT !.deleted = (t.name = "t2")] : t \in TestCatalog.tables}]

\* In-memory schemas the conversion is applied to: 0..2 tables, 0..2 columns each.
ColumnSchemas == [id : {ColumnId(i) : i \in 1..MaxId}, column_type : UsedColumnTypes]
ColumnMaps == UNION {[S -> ColumnSchemas] : S \in SUBSET ColumnNames}
TableSchemas == [id : {TableId(i) : i \in 1..MaxId}, columns : ColumnMaps]
TableMaps == UNION {[S -> TableSchemas] : S \in SUBSET TableNames}
NamespaceSchemas == [id : {NamespaceId(i) : i \in 1..MaxId}, tables : TableMaps]

EmptySchema == [id |-> NamespaceId(1), tables |-> <<>>]

Init ==
    /\ namespaces = {}
    /\ tables = {}
    /\ columns = {}
    /\ exclusive = TRUE
    /\ service = NewService
    /\ req = [r \in Requests |-> IdleCall]
    /\ convIn = EmptySchema
    /\ convOut = None

\* One call at a time, against a catalog that other parties write.
Next ==
    \/ \E name \in NamespaceNames : CreateNamespace(name)
    \/ \E ns \in namespaces, name \in TableNames : CreateTable(ns, name)
    \/ \E t \in tables, name \in ColumnNames, type \in UsedColumnTypes :
          CreateColumn(t, name, type)
    \/ \E ns \in namespaces : SoftDeleteNamespace(ns)
    \/ \E t \in tables : SoftDeleteTable(t)
    \/ \E namespace \in RequestNamespaces, table \in RequestTables :
          Begin(1, namespace, table)
    \/ Acquire(1)
    \/ Lookup(1)
    \/ Finish(1)
    \/ Deliver(1)

Spec == Init /\ [][Next]_vars

\* Overlapping calls sharing the one catalog handle; the catalog is not written.
InitConc ==
    /\ \E cat \in {TestCatalog, TestCatalogDeleted} :
          /\ namespaces = cat.namespaces
          /\ tables = cat.tables
          /\ columns = cat.columns
    /\ exclusive \in BOOLEAN
    /\ service = NewService
    /\ req = [r \in Requests |-> IdleCall]
    /\ convIn = EmptySchema
    /\ convOut = None

NextConc ==
    \E r \in Requests :
        \/ \E namespace \in ConcNamespaces, table \in ConcTables :
              Begin(r, namespace, table)
        \/ Acquire(r)
        \/ Lookup(r)
        \/ Finish(r)
        \/ Deliver(r)

\* The runtime polls every ready task, and the lock behind an exclusive handle
\* serves its waiters in turn: a call that keeps finding the handle free now
\* and again gets it.
SpecConc ==
    /\ InitConc
    /\ [][NextConc]_vars
    /\ \A r \in Requests :
          SF_vars(Acquire(r)) /\ WF_vars(Lookup(r)) /\ WF_vars(Finish(r))

\* schema_to_proto on its own, over every bounded in-memory schema.
InitConv ==
    /\ namespaces = {}
    /\ tables = {}
    /\ columns = {}
    /\ exclusive = TRUE
    /\ service = NewService
    /\ req = [r \in Requests |-> IdleCall]
    /\ convIn \in NamespaceSchemas
    /\ convOut = None

Convert ==
    /\ convOut = None
    /\ convOut' = Some(schema_to_proto(convIn))
    /\ UNCHANGED <<namespaces, tables, columns, exclusive, service, req, convIn>>

NextConv == Convert

SpecConv == InitConv /\ [][NextConv]_vars

\* -------------------------------------------------------------- claims
\* What the catalog holds, read off its rows.
LiveNamespace(name) == {n \in namespaces : n.name = name /\ ~n.deleted}
LiveTablesOf(ns) == {t \in tables : t.namespace_id = ns.id /\ ~t.deleted}
ColumnsOf(t) == {c \in columns : c.table_id = t.id}

\* The wire columns of table row t carry its columns' names, ids and type codes.
WireColumnsMatch(w, t) ==
    /\ DOMAIN w.columns = {c.name : c \in ColumnsOf(t)}
    /\ \A c \in ColumnsOf(t) :
          /\ w.columns[c.name].id = c.id
          /\ w.columns[c.name].column_type = ColumnTypeCode(c.column_type)

\* Wire schema w is in-memory schema m entity for entity.
Projects(m, w) ==
    /\ w.id = Get(m.id)
    /\ DOMAIN w.tables = DOMAIN m.tables
    /\ Cardinality(DOMAIN w.tables) = Cardinality(DOMAIN m.tables)
    /\ \A t \in DOMAIN m.tables :
          /\ w.tables[t].id = Get(m.tables[t].id)
          /\ DOMAIN w.tables[t].columns = DOMAIN m.tables[t].columns
          /\ Cardinality(DOMAIN w.tables[t].columns) = Cardinality(DOMAIN m.tables[t].columns)
          /\ \A c \in DOMAIN m.tables[t].columns :
                /\ w.tables[t].columns[c].id = Get(m.tables[t].columns[c].id)
                /\ w.tables[t].columns[c].column_type =
                      ColumnTypeCode(m.tables[t].columns[c].column_type)

Done(r) == req[r].pc = "done"
ResponseOf(r) == Unwrap(req[r].response)
Succeeded(r) == Done(r) /\ ResponseOf(r).ok /\ IsSome(ResponseOf(r).val.schema)
WireOf(r) == Unwrap(ResponseOf(r).val.schema)
Failed(r) == Done(r) /\ ~ResponseOf(r).ok

\* C1: a call with table absent on a namespace that exists (not soft-deleted)
\* succeeds; the schema's table names are exactly the namespace's live tables,
\* each with exactly its columns (names, ids, type codes), and the schema's id
\* is the namespace's id in the catalog.
C1_AllTables ==
    \A r \in Requests :
        (Done(r) /\ req[r].table = None /\ LiveNamespace(req[r].namespace) # {}) =>
            /\ Succeeded(r)
            /\ \A ns \in LiveNamespace(req[r].namespace) :
                  /\ WireOf(r).id = ns.id
                  /\ DOMAIN WireOf(r).tables = {t.name : t \in LiveTablesOf(ns)}
                  /\ \A t \in LiveTablesOf(ns) : WireColumnsMatch(WireOf(r).tables[t.name], t)

\* A finished by-namespace call on a namespace with two live tables, one of
\* which has a column, beside a second namespace.
C1_Witness ==
    \E r \in Requests, ns \in namespaces :
        /\ Done(r) /\ req[r].table = None /\ req[r].namespace = ns.name
        /\ ~ns.deleted
        /\ Cardinality(LiveTablesOf(ns)) = 2
        /\ \E t \in LiveTablesOf(ns) : ColumnsOf(t) # {}
        /\ Succeeded(r)

\* C2: a call naming a table that exists in an existing namespace succeeds with
\* exactly one table entry, keyed by the requested name, with that table's id
\* and exactly its columns.
C2_OneTable ==
    \A r \in Requests :
        \A ns \in LiveNamespace(req[r].namespace) :
            \A t \in LiveTablesOf(ns) :
                (Done(r) /\ req[r].table = Some(t.name)) =>
                    /\ Succeeded(r)
                    /\ DOMAIN WireOf(r).tables = {t.name}
                    /\ WireOf(r).tables[t.name].id = t.id
                    /\ WireColumnsMatch(WireOf(r).tables[t.name], t)

\* A finished by-table call on a namespace that holds a second live table.
C2_Witness ==
    \E r \in Requests, ns \in namespaces, t \in tables :
        /\ Done(r) /\ req[r].namespace = ns.name /\ req[r].table = Some(t.name)
        /\ ~ns.deleted /\ t \in LiveTablesOf(ns)
        /\ Cardinality(LiveTablesOf(ns)) = 2
        /\ ColumnsOf(t) # {}
        /\ Succeeded(r)

\* C3: a call naming a table that the existing namespace does not hold (no such
\* row, or the row is soft-deleted) fails with NotFound and the message
\* "table <table> not found"; it never succeeds with an empty table mapping.
C3_TableNotFound ==
    \A r \in Requests :
        \A ns \in LiveNamespace(req[r].namespace) :
            (/\ Done(r)
             /\ IsSome(req[r].table)
             /\ \A t \in LiveTablesOf(ns) : t.name # Unwrap(req[r].table)) =>
                /\ Failed(r)
                /\ ResponseOf(r).err.code = "NotFound"
                /\ ResponseOf(r).err.message = <<"table", Unwrap(req[r].table), "not found">>

\* A finished call naming a soft-deleted table of a namespace that has a live one.
C3_Witness ==
    \E r \in Requests, ns \in namespaces, t \in tables :
        /\ Done(r) /\ req[r].namespace = ns.name /\ req[r].table = Some(t.name)
        /\ ~ns.deleted /\ t.namespace_id = ns.id /\ t.deleted
        /\ LiveTablesOf(ns) # {}
        /\ Failed(r)

\* C4: a call on a namespace name the catalog has no row for (the empty string
\* included) fails with NotFound, with table absent and with table present.
C4_NamespaceNotFound ==
    \A r \in Requests :
        (Done(r) /\ \A n \in namespaces : n.name # req[r].namespace) =>
            /\ Failed(r)
            /\ ResponseOf(r).err.code = "NotFound"

\* A finished call on the empty namespace name with a table that another
\* namespace holds.
C4_Witness ==
    \E r \in Requests, t \in tables :
        /\ Done(r) /\ req[r].namespace = "" /\ req[r].table = Some(t.name)
        /\ ~t.deleted
        /\ Failed(r)

C6_ConversionFidelity ==
    IsSome(convOut) => Projects(convIn, Unwrap(convOut))

\* A converted schema with two tables, one of them with two columns of
\* different types.
C6_Witness ==
    /\ IsSome(convOut)
    /\ DOMAIN convIn.tables = TableNames
    /\ \E t \in TableNames :
          /\ DOMAIN convIn.tables[t].columns = ColumnNames
          /\ convIn.tables[t].columns["c1"].column_type #
                convIn.tables[t].columns["c2"].column_type
          /\ convIn.tables[t].columns["c1"].id # convIn.tables[t].id

\* C7: no step of get_schema changes the catalog's rows or deletion marks, nor
\* the service's catalog reference.
C7_CatalogUnchanged ==
    [][(\E r \in Requests : HandlerStep(r)) =>
          UNCHANGED <<namespaces, tables, columns, service>>]_vars

\* A failed call finished against a catalog that holds a live table.
C7_Witness ==
    \E r \in Requests :
        /\ Done(r) /\ Failed(r)
        /\ \E t \in tables : ~t.deleted
        /\ \E n \in namespaces : ~n.deleted

\* C8: two finished calls with the same namespace and table, on the same
\* catalog state, carry the same response, whatever ran in between.
C8_Idempotent ==
    \A r1, r2 \in Requests :
        (/\ Done(r1) /\ Done(r2)
         /\ req[r1].namespace = req[r2].namespace
         /\ req[r1].table = req[r2].table) =>
            req[r1].response = req[r2].response

\* Two slots finished with the same by-table request, successfully.
C8_Witness ==
    \E r1, r2 \in Requests :
        /\ r1 # r2
        /\ Done(r1) /\ Done(r2)
        /\ req[r1].namespace = req[r2].namespace
        /\ req[r1].table = req[r2].table
        /\ IsSome(req[r1].table)
        /\ Succeeded(r1)

\* The response of the request when it is the only call on the catalog.
Alone(namespace, table) ==
    LET res == Run(Dispatch(namespace, table), Catalog)
    IN  IF res.ok THEN Respond(res.val) ELSE Err(StatusNotFound(res.err))

\* C9: under any interleaving of calls sharing the catalog handle, a finished
\* call carries the response it has when run alone on that catalog, a call
\* holds the repositories handle from its start until its lookup has finished
\* and its response is built, and every call that arrived finishes.
C9_ConcurrentSafe ==
    /\ [](\A r \in Requests :
            /\ Done(r) => req[r].response = Some(Alone(req[r].namespace, req[r].table))
            /\ req[r].repos <=> req[r].pc \in {"acquired", "looked"})
    /\ \A r \in Requests : (req[r].pc = "start") ~> Done(r)

\* Two calls in flight at once, one finished and one past its lookup, with
\* different requests.
C9_Witness ==
    \E r1, r2 \in Requests :
        /\ r1 # r2
        /\ Done(r1) /\ req[r2].pc = "looked"
        /\ req[r1].table # req[r2].table
        /\ Succeeded(r1)

\* C10: a call makes at most one catalog lookup, and a finished call made
\* exactly one: by namespace iff table is absent, by namespace and table iff
\* table is present (the empty string included), excluding deleted rows; a
\* warning is logged once iff the call failed.
C10_SingleLookup ==
    \A r \in Requests :
        /\ Len(req[r].calls) <= 1
        /\ req[r].pc \in {"looked", "done"} =>
              /\ Len(req[r].calls) = 1
              /\ req[r].calls[1].namespace = req[r].namespace
              /\ req[r].calls[1].deleted = "ExcludeDeleted"
              /\ (req[r].table = None) <=> (req[r].calls[1].op = "get_schema_by_name")
              /\ IsSome(req[r].table) <=>
                    (/\ req[r].calls[1].op = "get_schema_by_namespace_and_table"
                     /\ req[r].calls[1].table = req[r].table)
        /\ Done(r) => Len(req[r].warns) = (IF Failed(r) THEN 1 ELSE 0)
        /\ ~Done(r) => req[r].warns = <<>>

\* A finished call with the empty string as table, failed on the table, on a
\* namespace that exists.
C10_Witness ==
    \E r \in Requests :
        /\ Done(r) /\ req[r].table = Some("")
        /\ LiveNamespace(req[r].namespace) # {}
        /\ Failed(r)
        /\ Len(req[r].warns) = 1

=============================================================================
